---- MODULE Spec2Model ----
(***************************************************************************)
(* Model of pyphi/models.py: the containers Cut, Mip, Mice, Concept and    *)
(* BigMip with their cut, ordering, truthiness, equality and hashing       *)
(* operations, and of the KCut that test/test_concept_style_cuts.py uses.  *)
(*                                                                         *)
(* The operations are pure functions.  A behaviour is one call: Init draws *)
(* the call (the operation and its operands) from bounded sets, and the    *)
(* action of that operation computes its return value as the code does.    *)
(* Python values are modelled as follows: a tuple of node indices is a     *)
(* sequence; an object is a record with a "type" field, and so is every    *)
(* value that may be None (None itself, a string, a numpy array, a tuple   *)
(* of objects); a numpy matrix is a function on pairs of positions; the    *)
(* outcome of a comparison is one of the strings "True", "False",          *)
(* "NotImplemented", "AttributeError"; phi is an integer number of phi     *)
(* units, and PRECISION is expressed in the same units.                    *)
(***************************************************************************)
EXTENDS Integers, Sequences, FiniteSets, TLC

VARIABLES
    pc,         \* "call": the operation is pending; "built": a null constructor
                \* has built x; "return": ret holds the value returned
    op,         \* name of the operation of this call
    cut,        \* the Cut or KCut the call is made on
    arg,        \* tuple argument (mechanism / candidate_indices)
    mice,       \* the Mice of a damaged_by_cut call
    subsystem,  \* the subsystem argument of damaged_by_cut; the network of
                \* a KCut
    x, y, z,    \* container operands (self, other, a third one)
    ret         \* the value returned

vars == <<pc, op, cut, arg, mice, subsystem, x, y, z, ret>>

----------------------------------------------------------------------------
(* Bounds of the model *)

\* longest tuple of node indices
MaxLen == 2
\* largest phi value, in phi units
MaxPhi == 2
\* most entries equal to 1 in a subsystem's cut matrix
MaxSevered == 1
\* the most parts of a KPartition drawn (the partition of the tests has three)
MaxParts == 2

\* Node indices of the network.  8 is the smallest index whose slot in a
\* small CPython set precedes the slot of a smaller index.
Nodes == {1, 2, 8}

----------------------------------------------------------------------------
(* Python helpers *)

None == [type |-> "NoneType"]

ToSet(t) == {t[i] : i \in DOMAIN t}

Max(S) == CHOOSE m \in S : \A o \in S : o <= m

\* tuples of distinct node indices with at most n elements
TuplesUpTo(n) ==
    UNION {{t \in [1..k -> Nodes] : \A i, j \in 1..k : i # j => t[i] # t[j]}
           : k \in 0..n}

\* network.size: every node index is below it
NetworkSize == Max(Nodes) + 1

Tuples == TuplesUpTo(MaxLen)

IsAscending(t) == \A i \in 1..(Len(t) - 1) : t[i] < t[i + 1]

SortedTuples == {t \in TuplesUpTo(Cardinality(Nodes)) : IsAscending(t)}

\* the ascending tuple of the elements of S
RECURSIVE Sorted(_)
Sorted(S) ==
    IF S = {} THEN <<>>
    ELSE LET m == CHOOSE m \in S : \A o \in S : m <= o
         IN  <<m>> \o Sorted(S \ {m})

\* tuple(set(t)) in CPython: a set of at most four small ints lives in a table
\* of 8 slots, element i in slot i mod 8, and iteration runs over the slots in
\* order.  (The nodes of the model have pairwise different slots.)
RECURSIVE TupleOfSet(_)
TupleOfSet(S) ==
    IF S = {} THEN <<>>
    ELSE LET m == CHOOSE m \in S : \A o \in S : (m % 8) <= (o % 8)
         IN  <<m>> \o TupleOfSet(S \ {m})

\* strict lexicographic order of two sequences of integers (Python list <)
RECURSIVE LexLess(_, _)
LexLess(s, t) ==
    IF s = <<>> THEN t # <<>>
    ELSE IF t = <<>> THEN FALSE
    ELSE IF Head(s) # Head(t) THEN Head(s) < Head(t)
    ELSE LexLess(Tail(s), Tail(t))

RECURSIVE SortLex(_)
SortLex(S) ==
    IF S = {} THEN <<>>
    ELSE LET m == CHOOSE m \in S : \A o \in S : o = m \/ LexLess(m, o)
         IN  <<m>> \o SortLex(S \ {m})

RECURSIVE Concat(_)
Concat(ss) == IF ss = <<>> THEN <<>> ELSE Head(ss) \o Concat(Tail(ss))

----------------------------------------------------------------------------
(* utils: connectivity primitives *)

\* itertools.combinations(t, r): the r-element sub-tuples of t, by position
Combinations(t, r) ==
    LET idx == SortLex({s \in [1..r -> 1..Len(t)] :
                           \A i \in 1..(r - 1) : s[i] < s[i + 1]})
    IN  [k \in 1..Len(idx) |-> [i \in 1..r |-> t[idx[k][i]]]]

\* utils.powerset: every sub-tuple, by increasing size then by position
Powerset(t) == Concat([r1 \in 1..(Len(t) + 1) |-> Combinations(t, r1 - 1)])

\* utils.relevant_connections(n, _from, to)
RelevantConnections(n, from, to) ==
    [i \in 0..(n - 1), j \in 0..(n - 1) |->
        IF i \in ToSet(from) /\ j \in ToSet(to) THEN 1 ELSE 0]

\* utils.submatrix(cm, rows, cols)
Submatrix(cm, rows, cols) ==
    [a \in 1..Len(rows), b \in 1..Len(cols) |-> cm[rows[a], cols[b]]]

----------------------------------------------------------------------------
(* Cut *)

Cuts == [type : {"Cut"}, severed : Tuples, intact : Tuples]

NoCut == [type |-> "Cut", severed |-> <<>>, intact |-> <<>>]

\* `A and B` on sets: A when A is empty (falsy), else B
\* variant: the two sides joined by `or`
SplitsMechanismOr(c, mechanism) ==
    LET a == ToSet(mechanism) \cap ToSet(c.severed)
        b == ToSet(mechanism) \cap ToSet(c.intact)
    IN  IF a # {} THEN a ELSE b

SplitsMechanism(c, mechanism) ==
    LET a == ToSet(mechanism) \cap ToSet(c.severed)
        b == ToSet(mechanism) \cap ToSet(c.intact)
    IN  IF a = {} THEN a ELSE b

\* truth value of a set: an empty set is falsy
Truthy(v) == v # {}

SelectSeqBy(s, c) ==
    LET F[i \in 0..Len(s)] ==
            IF i = 0 THEN <<>>
            ELSE IF Truthy(SplitsMechanism(c, s[i])) THEN Append(F[i - 1], s[i])
                 ELSE F[i - 1]
    IN  F[Len(s)]

\* variant: the powerset left unfiltered
AllCutMechanismsNoFilter(c, candidate_indices) == Powerset(candidate_indices)

AllCutMechanisms(c, candidate_indices) ==
    SelectSeqBy(Powerset(candidate_indices), c)

EmptyArray == <<>>

CutMatrix(c) ==
    LET cut_indices == TupleOfSet(ToSet(c.severed \o c.intact))
    IN  IF cut_indices = <<>> THEN EmptyArray
        ELSE LET n == Max(ToSet(cut_indices)) + 1
                 matrix == RelevantConnections(n, c.severed, c.intact)
             IN  Submatrix(matrix, cut_indices, cut_indices)

----------------------------------------------------------------------------
(* Mip and Mice *)

PAST == [type |-> "str", data |-> "past"]
FUTURE == [type |-> "str", data |-> "future"]

\* Mip(phi, direction, mechanism, purview, partition,
\*     unpartitioned_repertoire, partitioned_repertoire)
MipsOf(phis, dirs, mechs, purvs, parts, ureps, preps) ==
    [type : {"Mip"}, phi : phis, direction : dirs, mechanism : mechs,
     purview : purvs, partition : parts,
     unpartitioned_repertoire : ureps, partitioned_repertoire : preps]

\* Mice(mip)
MicesOf(mips) == [type : {"Mice"}, mip : mips]

\* the pass-through properties of a Mice
MiceDirection(m) == m.mip.direction
MiceMechanism(m) == m.mip.mechanism
MicePurview(m) == m.mip.purview

\* a subsystem, as far as damaged_by_cut reads it
SubsystemsOver(idxs) ==
    LET k     == Len(idxs)
        pairs == (1..k) \X (1..k)
    IN  {[type |-> "Subsystem", node_indices |-> idxs, size |-> NetworkSize,
          cut |-> [type |-> "Cut", severed |-> Sorted(sev),
                   intact |-> Sorted(ToSet(idxs) \ sev)],
          cut_matrix |-> [p \in pairs |-> IF p \in ones THEN 1 ELSE 0]] :
            sev \in SUBSET ToSet(idxs),
            ones \in {P \in SUBSET pairs : Cardinality(P) <= MaxSevered}}

Subsystems == UNION {SubsystemsOver(idxs) : idxs \in SortedTuples \ {<<>>}}

\* variant: the two directions exchanged
RelevantConnectionsOfSwapped(m, s) ==
    LET from == IF MiceDirection(m) = PAST THEN MiceMechanism(m) ELSE MicePurview(m)
        to   == IF MiceDirection(m) = PAST THEN MicePurview(m) ELSE MiceMechanism(m)
        cm   == RelevantConnections(s.size, from, to)
    IN  Submatrix(cm, s.node_indices, s.node_indices)

\* Mice._relevant_connections(subsystem), for the two directions
RelevantConnectionsOf(m, s) ==
    LET from == IF MiceDirection(m) = PAST THEN MicePurview(m) ELSE MiceMechanism(m)
        to   == IF MiceDirection(m) = PAST THEN MiceMechanism(m) ELSE MicePurview(m)
        cm   == RelevantConnections(s.size, from, to)
    IN  Submatrix(cm, s.node_indices, s.node_indices)

\* Mice.damaged_by_cut(subsystem), as the truth value of what it returns
DamagedByCut(m, s) ==
    \/ Truthy(SplitsMechanism(s.cut, MiceMechanism(m)))
    \/ LET rc == RelevantConnectionsOf(m, s)
       IN  \E p \in DOMAIN rc : rc[p] * s.cut_matrix[p] = 1

----------------------------------------------------------------------------
(* utils.phi_eq *)

\* config.PRECISION, in phi units
PRECISION == 1

Abs(n) == IF n < 0 THEN -n ELSE n

PhiEq(a, b) == Abs(a - b) <= PRECISION

----------------------------------------------------------------------------
(* Concept, BigMip and attribute access *)

ConceptsOf(phis, mechs, causes, effects, subsystems) ==
    [type : {"Concept"}, phi : phis, mechanism : mechs, cause : causes,
     effect : effects, subsystem : subsystems, normalized : {FALSE}]

BigMipsOf(phis, consts, subsystems, cut_subsystems) ==
    [type : {"BigMip"}, phi : phis, unpartitioned_constellation : consts,
     partitioned_constellation : consts, subsystem : subsystems,
     cut_subsystem : cut_subsystems]

\* a subsystem over the nodes idxs with the null cut
PlainSubsystem(idxs) ==
    [type |-> "Subsystem", node_indices |-> idxs, size |-> NetworkSize,
     cut |-> [type |-> "Cut", severed |-> <<>>, intact |-> idxs],
     cut_matrix |-> [p \in (1..Len(idxs)) \X (1..Len(idxs)) |-> 0]]

MiceProperties == {"phi", "direction", "mechanism", "purview", "repertoire", "mip"}

\* hasattr(o, a)
HasAttr(o, a) ==
    IF o.type = "Mice" THEN a \in MiceProperties ELSE a \in (DOMAIN o \ {"type"})

\* getattr(o, a): a Mice passes the attributes of its Mip through
GetAttr(o, a) ==
    IF o.type = "Mice"
    THEN IF a = "mip" THEN o.mip
         ELSE IF a = "repertoire" THEN o.mip.unpartitioned_repertoire
         ELSE o.mip[a]
    ELSE o[a]

Phi(o) == GetAttr(o, "phi")

PyBool(b) == IF b THEN "True" ELSE "False"

NotImplemented == "NotImplemented"

AttributeError == "AttributeError"

----------------------------------------------------------------------------
(* Ordering: _Ordering and its three variants.  A comparison returns its   *)
(* value together with the attributes of the operands it has read.         *)

\* the attributes _order_by reads
OrderAttrs(o) ==
    IF o.type \in {"Mip", "Mice"} THEN {"phi", "mechanism", "purview"}
    ELSE IF o.type = "Concept" THEN {"phi", "mechanism"}
    ELSE {"phi", "subsystem"}

\* _order_by of _PhiMechanismPurviewOrdering (Mip, Mice),
\* _PhiMechanismOrdering (Concept) and _PhiSubsystemOrdering (BigMip)
OrderBy(o) ==
    IF o.type \in {"Mip", "Mice"}
    THEN <<Phi(o), Len(GetAttr(o, "mechanism")), Len(GetAttr(o, "purview"))>>
    ELSE IF o.type = "Concept" THEN <<Phi(o), Len(o.mechanism)>>
    ELSE <<Phi(o), Len(o.subsystem.node_indices)>>

\* variant: the decorator without its type test
SameTypeNoCheck(self, other, r) == r

\* the decorator sametype
SameType(self, other, r) ==
    IF other.type # self.type
    THEN [val |-> NotImplemented, reads |-> {}]
    ELSE r

\* _Ordering.__lt__
Lt(self, other) ==
    SameType(self, other,
        [val   |-> PyBool(LexLess(OrderBy(self), OrderBy(other))),
         reads |-> OrderAttrs(self) \cup OrderAttrs(other)])

\* `l or phi_eq(self.phi, other.phi)`, l the outcome of a comparison
OrPhiEq(l, self, other) ==
    IF l.val # "False" THEN l
    ELSE [val   |-> PyBool(PhiEq(Phi(self), Phi(other))),
          reads |-> l.reads \cup {"phi"}]

\* variant: <= by equality of the whole key instead of phi_eq
LeFullKey(self, other) ==
    SameType(self, other,
        [val   |-> PyBool(\/ Lt(self, other).val = "True"
                          \/ OrderBy(self) = OrderBy(other)),
         reads |-> OrderAttrs(self) \cup OrderAttrs(other)])

\* variant: <= without the phi_eq alternative
LeStrict(self, other) == SameType(self, other, Lt(self, other))

\* _Ordering.__le__
Le(self, other) ==
    SameType(self, other, OrPhiEq(Lt(self, other), self, other))

\* _Ordering.__gt__
Gt(self, other) == SameType(self, other, Lt(other, self))

\* _Ordering.__ge__
Ge(self, other) ==
    SameType(self, other, OrPhiEq(Lt(other, self), self, other))

----------------------------------------------------------------------------
(* Truthiness and the null constructors *)

\* variant: phi compared with zero exactly
BoolExact(o) ==
    IF o.type \in {"Mip", "Concept", "BigMip"} THEN PyBool(o.phi # 0) ELSE "True"

\* Mip.__bool__, Concept.__bool__, BigMip.__bool__; a Mice defines neither
\* __bool__ nor __len__ and is always truthy
Bool(o) ==
    IF o.type \in {"Mip", "Concept", "BigMip"}
    THEN PyBool(~PhiEq(o.phi, 0))
    ELSE "True"

\* _null_mip(direction, mechanism, purview)
NullMip(direction, mechanism, purview) ==
    [type |-> "Mip", phi |-> 0, direction |-> direction,
     mechanism |-> mechanism, purview |-> purview, partition |-> None,
     unpartitioned_repertoire |-> None, partitioned_repertoire |-> None]

\* _null_bigmip(subsystem)
NullBigMip(s) ==
    [type |-> "BigMip", phi |-> 0,
     unpartitioned_constellation |-> [type |-> "tuple", data |-> <<>>],
     partitioned_constellation |-> [type |-> "tuple", data |-> <<>>],
     subsystem |-> s, cut_subsystem |-> s]

----------------------------------------------------------------------------
(* Equality *)

\* None where a tuple of node indices is expected (a sequence no tuple of
\* node indices equals), and the test `t is None`
NoneTuple == <<-1>>

IsNoneTuple(t) == t = NoneTuple

IsArrayLike(v) == v.type \in {"ndarray", "tuple"}

\* np.array_equal(a, b); two None are equal as arrays
ArrayEqual(a, b) ==
    \/ a = None /\ b = None
    \/ IsArrayLike(a) /\ IsArrayLike(b) /\ a.data = b.data

\* getattr(o, a, None), for an attribute that holds a tuple of node indices
GetTupleOrNone(o, a) == IF HasAttr(o, a) THEN GetAttr(o, a) ELSE NoneTuple

\* getattr(o, a, None), for an attribute that holds an array
GetArrayOrNone(o, a) == IF HasAttr(o, a) THEN GetAttr(o, a) ELSE None

\* utils.state_of(nodes, network_state)
StateOf(nodes, network_state) == [i \in 1..Len(nodes) |-> network_state[nodes[i]]]

\* Concept.eq_repertoires
EqRepertoires(self, other) ==
    /\ ArrayEqual(GetArrayOrNone(self.cause, "repertoire"),
                  GetArrayOrNone(other.cause, "repertoire"))
    /\ ArrayEqual(GetArrayOrNone(self.effect, "repertoire"),
                  GetArrayOrNone(other.effect, "repertoire"))

\* Concept.__eq__: the attributes of other are read outside any try, one
\* after the other as the chain of `and` goes on
ConceptEq(self, other) ==
    IF ~HasAttr(other, "cause") \/ ~HasAttr(other, "effect") THEN AttributeError
    ELSE IF ~HasAttr(other, "phi") THEN AttributeError
    ELSE IF self.phi # other.phi THEN "False"
    ELSE IF ~HasAttr(other, "mechanism") THEN AttributeError
    ELSE IF self.mechanism # other.mechanism THEN "False"
    ELSE IF ~HasAttr(other, "subsystem") THEN AttributeError
    ELSE IF ~HasAttr(other.subsystem, "state") THEN AttributeError
    ELSE IF StateOf(self.mechanism, self.subsystem.state)
                # StateOf(self.mechanism, other.subsystem.state) THEN "False"
    ELSE IF GetTupleOrNone(self.cause, "purview")
                # GetTupleOrNone(other.cause, "purview") THEN "False"
    ELSE IF GetTupleOrNone(self.effect, "purview")
                # GetTupleOrNone(other.effect, "purview") THEN "False"
    ELSE IF ~EqRepertoires(self, other) THEN "False"
    ELSE IF ~HasAttr(other.subsystem, "network") THEN AttributeError
    ELSE PyBool(self.subsystem.network = other.subsystem.network)

\* _numpy_aware_eq(a, b)
RECURSIVE NumpyAwareEq(_, _)
NumpyAwareEq(a, b) ==
    IF a.type = "ndarray" \/ b.type = "ndarray" THEN ArrayEqual(a, b)
    ELSE IF a.type = "tuple" /\ b.type = "tuple"
    THEN /\ Len(a.data) = Len(b.data)
         /\ \A i \in DOMAIN a.data : NumpyAwareEq(a.data[i], b.data[i])
    ELSE IF a.type = "Concept" THEN ConceptEq(a, b) = "True"
    ELSE a = b

\* _general_eq(a, b, attributes); an AttributeError gives False, also one
\* raised by the __eq__ of a value compared
RECURSIVE GeneralEq(_, _, _)
GeneralEq(a, b, attributes) ==
    IF attributes = <<>> THEN TRUE
    ELSE LET attr == Head(attributes)
         IN  IF ~HasAttr(a, attr) \/ ~HasAttr(b, attr) THEN FALSE
             ELSE LET _a == GetAttr(a, attr)
                      _b == GetAttr(b, attr)
                  IN  IF attr = "phi"
                      THEN PhiEq(_a, _b) /\ GeneralEq(a, b, Tail(attributes))
                      ELSE IF attr \in {"mechanism", "purview"}
                      THEN IF IsNoneTuple(_a) \/ (IsNoneTuple(_b) /\ ~(_a = _b))
                           THEN FALSE
                           ELSE /\ ToSet(_a) = ToSet(_b)
                                /\ GeneralEq(a, b, Tail(attributes))
                      ELSE /\ NumpyAwareEq(_a, _b)
                           /\ GeneralEq(a, b, Tail(attributes))

\* truth value of a tuple that may be None
TupleTruthy(t) == ~IsNoneTuple(t) /\ t # <<>>

MipEqAttrs == <<"phi", "direction", "mechanism", "unpartitioned_repertoire">>

\* variant: the purview lengths left out
MipEqNoPurviewLen(self, other) ==
    IF TupleTruthy(self.purview) /\ ~HasAttr(other, "purview") THEN AttributeError
    ELSE PyBool(GeneralEq(self, other, MipEqAttrs))

\* Mip.__eq__
MipEq(self, other) ==
    IF TupleTruthy(self.purview) /\ ~HasAttr(other, "purview") THEN AttributeError
    ELSE IF TupleTruthy(self.purview) /\ TupleTruthy(GetAttr(other, "purview"))
    THEN PyBool(/\ GeneralEq(self, other, MipEqAttrs)
                /\ Len(self.purview) = Len(GetAttr(other, "purview")))
    ELSE PyBool(GeneralEq(self, other, MipEqAttrs))

\* Mice.__eq__
MiceEq(self, other) ==
    IF ~HasAttr(other, "mip") THEN AttributeError
    ELSE MipEq(self.mip, GetAttr(other, "mip"))

BigMipAttributes ==
    <<"phi", "unpartitioned_constellation", "partitioned_constellation",
      "subsystem", "cut_subsystem">>

\* BigMip.__eq__
BigMipEq(self, other) == PyBool(GeneralEq(self, other, BigMipAttributes))

\* self == other, by the type of self
Eq(self, other) ==
    IF self.type = "Mip" THEN MipEq(self, other)
    ELSE IF self.type = "Mice" THEN MiceEq(self, other)
    ELSE IF self.type = "Concept" THEN ConceptEq(self, other)
    ELSE BigMipEq(self, other)

\* Mip.__hash__: the hash of the tuple of the exact phi, the direction, the
\* mechanism, the purview and the hash of the unpartitioned repertoire. A
\* hash is written as the key it is taken of: equal keys have equal hashes.
NpHash(a) == a

MipHash(self) ==
    <<self.phi, self.direction, self.mechanism, self.purview,
      NpHash(self.unpartitioned_repertoire)>>

\* Mice.__hash__
MiceHash(self) == <<"Mice", MipHash(self.mip)>>

Hash(self) == IF self.type = "Mip" THEN MipHash(self) ELSE MiceHash(self)

----------------------------------------------------------------------------
(* KCut: the cut of a KPartition, a sequence of Parts *)

Part(mechanism, purview) ==
    [type |-> "Part", mechanism |-> mechanism, purview |-> purview]

KCut(partition) == [type |-> "KCut", partition |-> partition]

\* the nodes of a part
PartNodes(part) == ToSet(part.mechanism) \cup ToSet(part.purview)

\* the nodes of the parts of a KCut
KNodes(k) == UNION {PartNodes(k.partition[p]) : p \in DOMAIN k.partition}

\* KCut.indices
KIndices(k) == Sorted(KNodes(k))

\* the connections i -> j a KCut severs: from the purview of a part to the
\* indices of the cut outside that part's mechanism
Severed(k) ==
    LET indices == KNodes(k)
    IN  UNION {ToSet(k.partition[p].purview)
                   \X (indices \ ToSet(k.partition[p].mechanism)) :
               p \in DOMAIN k.partition}

\* variant: from the mechanism of a part to the indices outside its purview
KCutMatrixFromMechanism(k, n) ==
    LET indices == KNodes(k)
        severed == UNION {ToSet(k.partition[p].mechanism)
                              \X (indices \ ToSet(k.partition[p].purview)) :
                          p \in DOMAIN k.partition}
    IN  [i \in 0..(n - 1), j \in 0..(n - 1) |->
            IF <<i, j>> \in severed THEN 1 ELSE 0]

\* KCut.cut_matrix(n)
KCutMatrix(k, n) ==
    LET severed == Severed(k)
    IN  [i \in 0..(n - 1), j \in 0..(n - 1) |->
            IF <<i, j>> \in severed THEN 1 ELSE 0]

\* KCut.apply_cut(cm): cm * logical_not(cut_matrix(n)) for the n x n matrix cm
KApplyCut(k, cm, n) ==
    LET cut_matrix == KCutMatrix(k, n)
    IN  [i \in 0..(n - 1), j \in 0..(n - 1) |-> cm[i, j] * (1 - cut_matrix[i, j])]

\* variant: the mechanism has nodes in the mechanisms of two parts
KSplitsMechanismSpans(k, mechanism) ==
    Cardinality({p \in DOMAIN k.partition :
        ToSet(mechanism) \cap ToSet(k.partition[p].mechanism) # {}}) >= 2

\* variant: the mechanism has a node in the mechanism of a part
KSplitsMechanismMeets(k, mechanism) ==
    \E p \in DOMAIN k.partition :
        ToSet(mechanism) \cap ToSet(k.partition[p].mechanism) # {}

\* KCut.splits_mechanism(mechanism): the cut severs a connection between
\* nodes of the mechanism
KSplitsMechanism(k, mechanism) ==
    Severed(k) \cap (ToSet(mechanism) \X ToSet(mechanism)) # {}

\* variant: no subset left out
KAllCutMechanismsNoFilter(k) == Powerset(KIndices(k))

\* KCut.all_cut_mechanisms()
KAllCutMechanisms(k) ==
    LET is_split(m) == KSplitsMechanism(k, m)
    IN  SelectSeq(Powerset(KIndices(k)), is_split)

----------------------------------------------------------------------------
(* The calls *)

Idle == [type |-> "Idle"]

InitCut ==
    /\ op \in {"splits_mechanism", "all_cut_mechanisms", "cut_matrix"}
    /\ cut \in Cuts
    /\ arg \in (IF op = "cut_matrix" THEN {<<>>} ELSE Tuples)
    /\ mice = Idle /\ subsystem = Idle
    /\ x = Idle /\ y = Idle /\ z = Idle

\* the Mips a damaged_by_cut call is made on
DamagedMips ==
    MipsOf({1}, {PAST, FUTURE}, Tuples, Tuples, {None}, {None}, {None})

InitDamaged ==
    /\ op = "damaged_by_cut"
    /\ mice \in MicesOf(DamagedMips)
    /\ subsystem \in Subsystems
    /\ cut = NoCut /\ arg = <<>>
    /\ x = Idle /\ y = Idle /\ z = Idle

\* tuples of each size up to MaxLen: what an ordering reads is the size
SizeTuples == {t \in SortedTuples : Len(t) <= MaxLen /\ t = SubSeq(Sorted(Nodes), 1, Len(t))}

Phis == 0..MaxPhi

OrdMips(purvs) == MipsOf(Phis, {PAST}, SizeTuples, purvs, {None}, {None}, {None})

OrdConcepts ==
    ConceptsOf(Phis, SizeTuples, {None}, {None}, {PlainSubsystem(Sorted(Nodes))})

OrdBigMips ==
    BigMipsOf(Phis, {[type |-> "tuple", data |-> <<>>]},
              {PlainSubsystem(t) : t \in SizeTuples},
              {PlainSubsystem(Sorted(Nodes))})

\* the operands of a comparison, of one type or of two
Containers ==
    OrdMips(SizeTuples) \cup MicesOf(OrdMips(SizeTuples)) \cup OrdConcepts \cup OrdBigMips

\* the operands of a chain of three comparisons within one type
ChainContainers(t) ==
    IF t = "Mip" THEN OrdMips({<<>>, <<1>>})
    ELSE IF t = "Mice" THEN MicesOf(OrdMips({<<>>, <<1>>}))
    ELSE IF t = "Concept" THEN OrdConcepts
    ELSE OrdBigMips

InitCompare ==
    /\ op = "compare"
    /\ x \in Containers /\ y \in Containers /\ z = Idle
    /\ cut = NoCut /\ arg = <<>> /\ mice = Idle /\ subsystem = Idle

InitChain ==
    /\ op = "le_chain"
    /\ \E t \in {"Mip", "Mice", "Concept", "BigMip"} :
          /\ x \in ChainContainers(t)
          /\ y \in ChainContainers(t)
          /\ z \in ChainContainers(t)
    /\ cut = NoCut /\ arg = <<>> /\ mice = Idle /\ subsystem = Idle

InitBool ==
    /\ op = "bool"
    /\ x \in Containers
    /\ y = Idle /\ z = Idle
    /\ cut = NoCut /\ arg = <<>> /\ mice = Idle /\ subsystem = Idle

InitNullMip ==
    /\ op = "_null_mip"
    /\ x \in [type : {"args"}, direction : {PAST, FUTURE},
              mechanism : Tuples, purview : Tuples]
    /\ y = Idle /\ z = Idle
    /\ cut = NoCut /\ arg = <<>> /\ mice = Idle /\ subsystem = Idle

InitNullBigMip ==
    /\ op = "_null_bigmip"
    /\ subsystem \in {PlainSubsystem(t) : t \in SortedTuples}
    /\ x = Idle /\ y = Idle /\ z = Idle
    /\ cut = NoCut /\ arg = <<>> /\ mice = Idle

\* repertoires: None or an array over the states of one node
Repertoires ==
    {None, [type |-> "ndarray", data |-> <<1, 0>>], [type |-> "ndarray", data |-> <<0, 1>>]}

\* partitions: None or a pair of Parts
Partitions ==
    {None,
     [type |-> "tuple",
      data |-> <<[type |-> "Part", mechanism |-> <<1>>, purview |-> <<>>],
                 [type |-> "Part", mechanism |-> <<>>, purview |-> <<1>>]>>]}

EqTuples == {t \in Tuples : ToSet(t) \subseteq {1, 2}}

\* the left operands of ==
EqSelfMips ==
    MipsOf({0, 1}, {PAST}, {<<1, 2>>}, {<<>>, <<1>>, <<1, 2>>}, {None},
           {None, [type |-> "ndarray", data |-> <<1, 0>>]}, {None})

\* the right operands of ==
EqOtherMips ==
    MipsOf(Phis, {PAST, FUTURE}, EqTuples, EqTuples, Partitions, Repertoires,
           {None, [type |-> "ndarray", data |-> <<1, 0>>]})

\* the subsystems of the Concepts and BigMips compared: over all the nodes,
\* in one of a few states of one of two networks
EqSubsystems ==
    {[type |-> "Subsystem", node_indices |-> Sorted(Nodes), size |-> NetworkSize,
      state |-> [n \in Nodes |-> IF n = on THEN 1 ELSE 0],
      network |-> [type |-> "Network", id |-> id]] :
        on \in {0, 1, 8}, id \in {1, 2}}

EqSubsystem == CHOOSE s \in EqSubsystems : s.state[1] = 1 /\ s.network.id = 1

\* the cause and effect of the Concepts compared
EqMices ==
    MicesOf(MipsOf({1}, {PAST}, {<<1, 2>>}, {<<1>>, <<2>>}, {None},
                   {[type |-> "ndarray", data |-> <<1, 0>>],
                    [type |-> "ndarray", data |-> <<0, 1>>]}, {None}))

EqMice == CHOOSE m \in EqMices : m.mip.purview = <<1>> /\ m.mip.unpartitioned_repertoire.data = <<1, 0>>

EqSelfConcepts ==
    ConceptsOf({0, 1}, {<<1, 2>>}, {None, EqMice}, {EqMice}, {EqSubsystem})

EqOtherConcepts ==
    ConceptsOf(Phis, {<<1, 2>>, <<2, 1>>}, {None, EqMice}, EqMices, EqSubsystems)

\* the constellations of the BigMips compared: of no or of one concept
EqConstellations ==
    {[type |-> "tuple", data |-> <<>>]}
        \cup {[type |-> "tuple", data |-> <<c>>] :
                 c \in ConceptsOf({1, 2}, {<<1, 2>>}, {EqMice}, {EqMice}, {EqSubsystem})}

EqSelfBigMips ==
    BigMipsOf({0, 1}, {c \in EqConstellations : c.data = <<>> \/ c.data[1].phi = 1},
              {EqSubsystem}, {EqSubsystem})

EqOtherBigMips ==
    BigMipsOf(Phis, EqConstellations,
              {s \in EqSubsystems : s.state[1] = 1}, {EqSubsystem})

InitEq ==
    /\ op = "eq"
    /\ \/ x \in EqSelfMips /\ y \in EqOtherMips
       \/ x \in MicesOf(EqSelfMips) /\ y \in MicesOf(EqOtherMips)
       \/ x \in EqSelfConcepts /\ y \in EqOtherConcepts
       \/ x \in EqSelfBigMips /\ y \in EqOtherBigMips
    /\ z = Idle
    /\ cut = NoCut /\ arg = <<>> /\ mice = Idle /\ subsystem = Idle

\* objects that lack attributes a comparison reads: plain objects with some
\* of the attributes, and containers of the other types
Foreign ==
    {[type |-> "object"],
     [type |-> "object", phi |-> 0],
     [type |-> "object", phi |-> 0, direction |-> PAST, mechanism |-> <<1, 2>>,
      unpartitioned_repertoire |-> None],
     [type |-> "object", cause |-> None, effect |-> None],
     [type |-> "object", cause |-> None, effect |-> None, phi |-> 0,
      mechanism |-> <<1, 2>>],
     [type |-> "object", cause |-> None, effect |-> None, phi |-> 0,
      mechanism |-> <<1, 2>>, subsystem |-> None]}

InitEqMissing ==
    /\ op = "eq_missing"
    /\ \/ /\ x \in EqSelfMips \cup MicesOf(EqSelfMips)
          /\ y \in Foreign \cup EqSelfConcepts \cup EqSelfBigMips
       \/ /\ x \in EqSelfConcepts
          /\ y \in Foreign \cup EqSelfMips \cup MicesOf(EqSelfMips) \cup EqSelfBigMips
       \/ /\ x \in EqSelfBigMips
          /\ y \in Foreign \cup EqSelfMips \cup MicesOf(EqSelfMips) \cup EqSelfConcepts
       \/ /\ x \in MicesOf(EqSelfMips)
          /\ y \in EqSelfMips
    /\ z = Idle
    /\ cut = NoCut /\ arg = <<>> /\ mice = Idle /\ subsystem = Idle

\* the operands of == whose hashes are taken
HashOtherMips ==
    MipsOf(Phis, {PAST}, EqTuples, EqTuples, {None}, Repertoires, {None})

InitEqHash ==
    /\ op = "eq_hash"
    /\ \/ x \in EqSelfMips /\ y \in HashOtherMips
       \/ x \in MicesOf(EqSelfMips) /\ y \in MicesOf(HashOtherMips)
    /\ z = Idle
    /\ cut = NoCut /\ arg = <<>> /\ mice = Idle /\ subsystem = Idle

\* the KCut of the tests
TestKCut == KCut(<<Part(<<0, 2>>, <<0>>), Part(<<>>, <<2>>), Part(<<3>>, <<3>>)>>)

TestSize == Max(KNodes(TestKCut)) + 1

\* the mechanisms the KCut of the tests is asked about
TestMechanisms == {Sorted(S) : S \in SUBSET (0..(TestSize - 1))}

\* the mechanisms and purviews of the parts drawn
PartTuples == {t \in SortedTuples : Len(t) <= MaxLen}

Parts == {Part(m, pv) : m \in PartTuples, pv \in PartTuples}

\* the KCuts drawn: up to MaxParts parts whose purviews are disjoint
KCuts ==
    {KCut(ps) : ps \in {qs \in UNION {[1..n -> Parts] : n \in 1..MaxParts} :
        \A p, q \in DOMAIN qs :
            p # q => ToSet(qs[p].purview) \cap ToSet(qs[q].purview) = {}}}

\* the mechanisms a KCut drawn is asked about
KCutMechanisms == {t \in PartTuples : ToSet(t) \subseteq {1, 2}}

\* the matrices a cut is applied to
Ones(n) == [i \in 0..(n - 1), j \in 0..(n - 1) |-> 1]

Diagonal(n) == [i \in 0..(n - 1), j \in 0..(n - 1) |-> IF i = j THEN 1 ELSE 0]

\* a call on a KCut of a network of n nodes
InitKCutOf(k, n, mechanisms) ==
    /\ cut = k
    /\ subsystem = [type |-> "Network", size |-> n]
    /\ \/ /\ op \in {"KCut.indices", "KCut.cut_matrix", "KCut.all_cut_mechanisms"}
          /\ arg = <<>> /\ x = Idle
       \/ /\ op = "KCut.apply_cut"
          /\ arg = <<>>
          /\ x \in {[type |-> "ndarray", data |-> Ones(n)],
                    [type |-> "ndarray", data |-> Diagonal(n)]}
       \/ /\ op = "KCut.splits_mechanism"
          /\ arg \in mechanisms
          /\ x = Idle

InitKCut ==
    /\ \/ InitKCutOf(TestKCut, TestSize, TestMechanisms)
       \/ \E k \in KCuts : InitKCutOf(k, NetworkSize, KCutMechanisms)
    /\ mice = Idle /\ y = Idle /\ z = Idle

Init ==
    /\ pc = "call"
    /\ ret = None
    /\ \/ InitCut
       \/ InitDamaged
       \/ InitCompare
       \/ InitChain
       \/ InitBool
       \/ InitNullMip
       \/ InitNullBigMip
       \/ InitEq
       \/ InitEqMissing
       \/ InitEqHash
       \/ InitKCut

Return(v) ==
    /\ pc' = "return"
    /\ ret' = v
    /\ UNCHANGED <<op, cut, arg, mice, subsystem, x, y, z>>

CallSplitsMechanism ==
    /\ pc = "call" /\ op = "splits_mechanism"
    /\ Return(SplitsMechanism(cut, arg))

CallAllCutMechanisms ==
    /\ pc = "call" /\ op = "all_cut_mechanisms"
    /\ Return(AllCutMechanisms(cut, arg))

CallCutMatrix ==
    /\ pc = "call" /\ op = "cut_matrix"
    /\ Return(CutMatrix(cut))

CallDamagedByCut ==
    /\ pc = "call" /\ op = "damaged_by_cut"
    /\ Return(DamagedByCut(mice, subsystem))

\* the four rich comparisons of x with y
CallCompare ==
    /\ pc = "call" /\ op = "compare"
    /\ Return([lt |-> Lt(x, y), le |-> Le(x, y), gt |-> Gt(x, y), ge |-> Ge(x, y)])

\* x <= x, x <= y, y <= z and x <= z
CallLeChain ==
    /\ pc = "call" /\ op = "le_chain"
    /\ Return([xx |-> Le(x, x).val, xy |-> Le(x, y).val,
               yz |-> Le(y, z).val, xz |-> Le(x, z).val])

\* the null constructors build the container whose truth value is then taken
CallNullMip ==
    /\ pc = "call" /\ op = "_null_mip"
    /\ pc' = "built"
    /\ x' = NullMip(x.direction, x.mechanism, x.purview)
    /\ UNCHANGED <<op, cut, arg, mice, subsystem, y, z, ret>>

CallNullBigMip ==
    /\ pc = "call" /\ op = "_null_bigmip"
    /\ pc' = "built"
    /\ x' = NullBigMip(subsystem)
    /\ UNCHANGED <<op, cut, arg, mice, subsystem, y, z, ret>>

CallBool ==
    /\ \/ pc = "call" /\ op = "bool"
       \/ pc = "built"
    /\ Return(Bool(x))

CallEq ==
    /\ pc = "call" /\ op \in {"eq", "eq_missing"}
    /\ Return(Eq(x, y))

\* x == y with the hashes of x and y
CallEqHash ==
    /\ pc = "call" /\ op = "eq_hash"
    /\ Return([eq |-> Eq(x, y), hash_x |-> Hash(x), hash_y |-> Hash(y)])

CallKCutIndices ==
    /\ pc = "call" /\ op = "KCut.indices"
    /\ Return(KIndices(cut))

CallKCutApplyCut ==
    /\ pc = "call" /\ op = "KCut.apply_cut"
    /\ Return(KApplyCut(cut, x.data, subsystem.size))

CallKCutCutMatrix ==
    /\ pc = "call" /\ op = "KCut.cut_matrix"
    /\ Return(KCutMatrix(cut, subsystem.size))

CallKCutSplitsMechanism ==
    /\ pc = "call" /\ op = "KCut.splits_mechanism"
    /\ Return(KSplitsMechanism(cut, arg))

CallKCutAllCutMechanisms ==
    /\ pc = "call" /\ op = "KCut.all_cut_mechanisms"
    /\ Return(KAllCutMechanisms(cut))

Next ==
    \/ CallSplitsMechanism
    \/ CallAllCutMechanisms
    \/ CallCutMatrix
    \/ CallDamagedByCut
    \/ CallCompare
    \/ CallLeChain
    \/ CallNullMip
    \/ CallNullBigMip
    \/ CallBool
    \/ CallEq
    \/ CallEqHash
    \/ CallKCutIndices
    \/ CallKCutApplyCut
    \/ CallKCutCutMatrix
    \/ CallKCutSplitsMechanism
    \/ CallKCutAllCutMechanisms

Spec == Init /\ [][Next]_vars

----------------------------------------------------------------------------
(* Claims about Cut *)

Returned(o) == pc = "return" /\ op = o

\* the mechanism (a set of nodes) has a node on each side of the cut
OnBothSides(c, m) ==
    /\ \E i \in m : i \in ToSet(c.severed)
    /\ \E j \in m : j \in ToSet(c.intact)

\* C1: splits_mechanism(m) is truthy iff m shares an index with severed and
\* an index with intact, for every cut and every mechanism (the empty one too).
C1_SplitsIffBothSides ==
    Returned("splits_mechanism") =>
        (Truthy(ret) <=> OnBothSides(cut, ToSet(arg)))

C1_Witness ==
    /\ Returned("splits_mechanism")
    /\ Truthy(ret)
    /\ Len(arg) = 2

\* C2: for a cut with disjoint sides, cut_matrix() is the square 0/1 matrix
\* over the cut's indices in ascending order whose entry (i, j) is 1 iff i is
\* severed and j is intact; an empty cut gives the empty matrix.
C2_CutMatrixAscending ==
    (Returned("cut_matrix") /\ ToSet(cut.severed) \cap ToSet(cut.intact) = {}) =>
        LET idx == Sorted(ToSet(cut.severed) \cup ToSet(cut.intact))
            k   == Len(idx)
        IN  IF k = 0 THEN ret = EmptyArray
            ELSE /\ DOMAIN ret = (1..k) \X (1..k)
                 /\ \A a, b \in 1..k :
                        ret[a, b] = IF /\ idx[a] \in ToSet(cut.severed)
                                       /\ idx[b] \in ToSet(cut.intact)
                                    THEN 1 ELSE 0

\* position of node v in the tuple t of distinct nodes
PosIn(t, v) == CHOOSE i \in DOMAIN t : t[i] = v

\* the positions in t of the elements of the tuple m
Positions(t, m) == [i \in DOMAIN m |-> PosIn(t, m[i])]

\* canonical powerset order: smaller first, then by position in the candidates
PowersetBefore(t, m1, m2) ==
    \/ Len(m1) < Len(m2)
    \/ Len(m1) = Len(m2) /\ LexLess(Positions(t, m1), Positions(t, m2))

\* C3: all_cut_mechanisms(candidates) holds exactly the subsets of the
\* candidates that the cut splits, each once, in canonical powerset order.
C3_AllCutMechanismsExact ==
    Returned("all_cut_mechanisms") =>
        /\ \A k \in DOMAIN ret :
              /\ ToSet(ret[k]) \subseteq ToSet(arg)
              /\ IsAscending(Positions(arg, ret[k]))
              /\ OnBothSides(cut, ToSet(ret[k]))
        /\ \A S \in SUBSET ToSet(arg) :
              OnBothSides(cut, S) =>
                  Cardinality({k \in DOMAIN ret : ToSet(ret[k]) = S}) = 1
        /\ \A k, l \in DOMAIN ret :
              k < l => PowersetBefore(arg, ret[k], ret[l])

C3_Witness ==
    /\ Returned("all_cut_mechanisms")
    /\ Len(ret) >= 1
    /\ Len(ret) < Len(Powerset(arg)) - 1

----------------------------------------------------------------------------
(* Claims about Mice.damaged_by_cut *)

\* the connection i -> j matters to the Mice m
IsRelevant(m, i, j) ==
    IF MiceDirection(m) = PAST
    THEN i \in ToSet(MicePurview(m)) /\ j \in ToSet(MiceMechanism(m))
    ELSE i \in ToSet(MiceMechanism(m)) /\ j \in ToSet(MicePurview(m))

\* a connection between subsystem nodes that is relevant to m and that the
\* subsystem's cut matrix marks as severed
SeveredRelevant(m, s) ==
    \E a, b \in DOMAIN s.node_indices :
        /\ s.cut_matrix[a, b] = 1
        /\ IsRelevant(m, s.node_indices[a], s.node_indices[b])

\* C4: damaged_by_cut is truthy iff the cut splits the mechanism or the cut
\* matrix marks a relevant connection (purview -> mechanism for a cause,
\* mechanism -> purview for an effect) as severed.
C4_DamagedIffSplitOrSevered ==
    Returned("damaged_by_cut") =>
        (ret <=> \/ OnBothSides(subsystem.cut, ToSet(MiceMechanism(mice)))
                 \/ SeveredRelevant(mice, subsystem))

\* the mechanism lies on one side and a single severed connection damages it
C4_Witness ==
    /\ Returned("damaged_by_cut")
    /\ ret
    /\ MiceMechanism(mice) # <<>>
    /\ MiceMechanism(mice) # MicePurview(mice)
    /\ ~OnBothSides(subsystem.cut, ToSet(MiceMechanism(mice)))

----------------------------------------------------------------------------
(* Claims about the ordering *)

SameTyped(a, b) == a.type = b.type

\* C5: within one container type, a <= b iff a < b or phi_eq(a.phi, b.phi),
\* and a >= b iff b < a or phi_eq(a.phi, b.phi); so when phi_eq holds both
\* a <= b and a >= b hold, whatever the sizes are.
C5_LeGeByLtOrPhiEq ==
    (Returned("compare") /\ SameTyped(x, y)) =>
        /\ ret.le.val = PyBool(ret.lt.val = "True" \/ PhiEq(Phi(x), Phi(y)))
        /\ ret.ge.val = PyBool(Lt(y, x).val = "True" \/ PhiEq(Phi(x), Phi(y)))
        /\ PhiEq(Phi(x), Phi(y)) => (ret.le.val = "True" /\ ret.ge.val = "True")

\* both a <= b and a >= b although the keys differ and a < b does not hold
C5_Witness ==
    /\ Returned("compare") /\ SameTyped(x, y)
    /\ Phi(x) # Phi(y)
    /\ OrderBy(x) # OrderBy(y)
    /\ ret.lt.val = "False"
    /\ ret.le.val = "True" /\ ret.ge.val = "True"

\* C6 as claimed: <= within one container type is reflexive and transitive.
C6_Preorder ==
    Returned("le_chain") =>
        /\ ret.xx = "True"
        /\ (ret.xy = "True" /\ ret.yz = "True") => ret.xz = "True"

\* a chain of phi values, each within the precision of the next, whose ends
\* are further apart than the precision
PhiEqChainBroken(a, b, c) ==
    /\ PhiEq(Phi(a), Phi(b))
    /\ PhiEq(Phi(b), Phi(c))
    /\ ~PhiEq(Phi(a), Phi(c))

\* C6 as amended: <= within one container type is reflexive, and
\* a <= b and b <= c imply a <= c unless phi_eq(a.phi, b.phi) and
\* phi_eq(b.phi, c.phi) hold while phi_eq(a.phi, c.phi) does not.
C6_ReflexiveAndTransitiveUpToPrecision ==
    Returned("le_chain") =>
        /\ ret.xx = "True"
        /\ (ret.xy = "True" /\ ret.yz = "True" /\ ~PhiEqChainBroken(x, y, z))
               => ret.xz = "True"

\* a transitive chain through phi values that are equal up to the precision
C6_Witness ==
    /\ Returned("le_chain")
    /\ ret.xy = "True" /\ ret.yz = "True" /\ ret.xz = "True"
    /\ Phi(x) > Phi(y)
    /\ Phi(y) < Phi(z)
    /\ OrderBy(x) # OrderBy(z)

\* the sizes that break a tie: mechanism size, then (Mip, Mice) purview size
SizeKey(o) == Tail(OrderBy(o))

\* C7: when the phi values of two Mips, Mices or Concepts are equal up to
\* PRECISION, a < b holds iff a's mechanism is smaller than b's (for Mip and
\* Mice, iff the mechanism or, at equal mechanism size, the purview is
\* smaller), whatever the difference of the phi values below the precision.
C7_TieBrokenBySize ==
    (/\ Returned("compare") /\ SameTyped(x, y)
     /\ x.type \in {"Mip", "Mice", "Concept"}
     /\ PhiEq(Phi(x), Phi(y))) =>
        (ret.lt.val = "True" <=> LexLess(SizeKey(x), SizeKey(y)))

\* C8: an ordering comparison between containers of different concrete types
\* returns NotImplemented without reading phi or a size of either operand.
C8_DifferentTypesNotImplemented ==
    (Returned("compare") /\ ~SameTyped(x, y)) =>
        \A r \in {ret.lt, ret.le, ret.gt, ret.ge} :
            r.val = NotImplemented /\ r.reads = {}

\* a Concept compared with a BigMip of smaller phi
C8_Witness ==
    /\ Returned("compare")
    /\ x.type = "Concept" /\ y.type = "BigMip"
    /\ Phi(y) < Phi(x)
    /\ ret.gt.val = NotImplemented

----------------------------------------------------------------------------
(* Claims about truthiness and equality *)

\* C9: a Mip, a Concept and a BigMip are falsy iff phi_eq(phi, 0), whatever
\* their other attributes; the null Mip and the null BigMip are falsy.
C9_FalsyIffPhiZero ==
    (pc = "return" /\ op \in {"bool", "_null_mip", "_null_bigmip"}
                   /\ x.type \in {"Mip", "Concept", "BigMip"}) =>
        /\ ret = "False" <=> PhiEq(x.phi, 0)
        /\ op \in {"_null_mip", "_null_bigmip"} => ret = "False"

\* a container of non-zero phi within the precision of zero is falsy
C9_Witness ==
    /\ Returned("bool")
    /\ x.type = "Concept"
    /\ x.phi # 0
    /\ ret = "False"

\* equality of two Mips as claimed
MipsEqual(a, b) ==
    /\ PhiEq(a.phi, b.phi)
    /\ a.direction = b.direction
    /\ ToSet(a.mechanism) = ToSet(b.mechanism)
    /\ a.unpartitioned_repertoire = b.unpartitioned_repertoire
    /\ (a.purview # <<>> /\ b.purview # <<>>) => Len(a.purview) = Len(b.purview)

ReadAttrs(self) ==
    IF self.type = "Mip"
    THEN {"phi", "direction", "mechanism", "unpartitioned_repertoire"}
             \cup (IF TupleTruthy(self.purview) THEN {"purview"} ELSE {})
    ELSE IF self.type = "Mice" THEN {"mip"}
    ELSE IF self.type = "Concept"
    THEN {"cause", "effect", "phi", "mechanism", "subsystem"}
    ELSE {"phi", "unpartitioned_constellation", "partitioned_constellation",
          "subsystem", "cut_subsystem"}

\* C11: a container of any of the four types compared for equality with an
\* object that lacks an attribute the comparison reads is not equal to it
\* (False), and no missing-attribute fault leaves the comparison.
C11_MissingAttributeNotEqual ==
    (Returned("eq_missing") /\ \E a \in ReadAttrs(x) : ~HasAttr(y, a))
        => ret = "False"

\* two containers of one type that agree on every attribute but phi
AgreeButPhi(a, b) ==
    /\ a.type = b.type
    /\ IF a.type = "Mice" THEN [a.mip EXCEPT !.phi = b.mip.phi] = b.mip
       ELSE [a EXCEPT !.phi = b.phi] = b

\* C12: the equality of every container type compares phi with phi_eq: two
\* containers of one type that agree on every other attribute and whose phi
\* values are within the precision of each other are equal.
C12_PhiComparedWithTolerance ==
    (Returned("eq") /\ AgreeButPhi(x, y) /\ PhiEq(Phi(x), Phi(y)))
        => ret = "True"

----------------------------------------------------------------------------
(* Claims about KCut *)

\* the matrix with the given rows
MatrixOf(rows) ==
    [i \in 0..(Len(rows) - 1), j \in 0..(Len(rows) - 1) |-> rows[i + 1][j + 1]]

\* what the tests expect of apply_cut on the all-ones matrix and of cut_matrix(4)
TestCutCm ==
    MatrixOf(<<<<1, 1, 1, 0>>, <<1, 1, 1, 1>>, <<0, 1, 0, 0>>, <<0, 1, 0, 1>>>>)

TestCutMatrix ==
    MatrixOf(<<<<0, 0, 0, 1>>, <<0, 0, 0, 0>>, <<1, 0, 1, 1>>, <<1, 0, 1, 0>>>>)

\* C13: cut_matrix(n) has a 1 exactly where apply_cut zeroes an entry of the
\* n x n all-ones matrix; apply_cut leaves every other entry as it was, every
\* entry in the row of a node outside the indices included; for the KCut of
\* the tests and n = 4 the two matrices are the ones the tests give.
C13_CutMatrixComplementsApplyCut ==
    LET n == subsystem.size
    IN  /\ Returned("KCut.cut_matrix") =>
              LET applied == KApplyCut(cut, Ones(n), n)
              IN  /\ \A i, j \in 0..(n - 1) :
                        /\ ret[i, j] \in {0, 1}
                        /\ ret[i, j] = 1 <=> applied[i, j] = 0
                  /\ cut = TestKCut => ret = TestCutMatrix
        /\ Returned("KCut.apply_cut") =>
              LET cm == KCutMatrix(cut, n)
                  indices == KNodes(cut)
              IN  /\ \A i, j \in 0..(n - 1) :
                        /\ ret[i, j] = (IF cm[i, j] = 1 THEN 0 ELSE x.data[i, j])
                        /\ i \notin indices => ret[i, j] = x.data[i, j]
                  /\ (cut = TestKCut /\ x.data = Ones(n)) => ret = TestCutCm

\* the cut of the tests applied to the all-ones matrix
C13_Witness ==
    /\ Returned("KCut.apply_cut")
    /\ cut = TestKCut
    /\ x.data = Ones(TestSize)
    /\ ret = TestCutCm

\* the mechanism has nodes in the mechanisms of two or more parts
SpansParts(k, m) ==
    \E p, q \in DOMAIN k.partition :
        /\ p # q
        /\ ToSet(m) \cap ToSet(k.partition[p].mechanism) # {}
        /\ ToSet(m) \cap ToSet(k.partition[q].mechanism) # {}

C15_IndicesAndAllCutMechanisms ==
    /\ Returned("KCut.indices") =>
          /\ IsAscending(ret)
          /\ ToSet(ret) = UNION {ToSet(cut.partition[p].mechanism)
                                     \cup ToSet(cut.partition[p].purview) :
                                 p \in DOMAIN cut.partition}
          /\ cut = TestKCut => ret = <<0, 2, 3>>
    /\ Returned("KCut.all_cut_mechanisms") =>
          LET indices == KIndices(cut)
          IN  /\ \A k \in DOMAIN ret :
                    /\ ret[k] # <<>>
                    /\ ToSet(ret[k]) \subseteq ToSet(indices)
                    /\ IsAscending(Positions(indices, ret[k]))
                    /\ KSplitsMechanism(cut, ret[k])
              /\ \A S \in SUBSET ToSet(indices) :
                    (S # {} /\ KSplitsMechanism(cut, Sorted(S))) =>
                        Cardinality({k \in DOMAIN ret : ToSet(ret[k]) = S}) = 1
              /\ \A k, l \in DOMAIN ret :
                    k < l => PowersetBefore(indices, ret[k], ret[l])
              /\ cut = TestKCut =>
                    ret = <<(<<2>>), <<0, 2>>, <<0, 3>>, <<2, 3>>, <<0, 2, 3>>>>

\* the cut mechanisms of the KCut of the tests: some subsets, not all
C15_Witness ==
    /\ Returned("KCut.all_cut_mechanisms")
    /\ cut = TestKCut
    /\ Len(ret) = 5
    /\ Len(ret) < Len(Powerset(KIndices(cut))) - 1

OnePartOfSameNodes(k) ==
    /\ Len(k.partition) = 1
    /\ ToSet(k.partition[1].mechanism) = ToSet(k.partition[1].purview)

----------------------------------------------------------------------------
(* Claims about hashing *)

\* C17: two Mips, or two Mices, that are equal have equal hashes.
C17_EqualImpliesEqualHash ==
    Returned("eq_hash") => (ret.eq = "True" => ret.hash_x = ret.hash_y)

====
